---- MODULE Spec2Model ----
(***************************************************************************)
(* pkg/security/ebpf/c/container.h                                         *)
(*                                                                         *)
(*   static __attribute__((always_inline))                                 *)
(*   void copy_container_id(const char src[CONTAINER_ID_LEN],              *)
(*                          char dst[CONTAINER_ID_LEN]) {                  *)
(*       __builtin_memmove(dst, src, CONTAINER_ID_LEN);                    *)
(*   }                                                                     *)
(*                                                                         *)
(* Memory is a function from byte addresses to byte values.  A container   *)
(* identifier is the CONTAINER_ID_LEN bytes starting at an address.  The   *)
(* two pointer arguments are addresses in one memory, so every relative    *)
(* placement of the two regions (disjoint, partially overlapping, equal)   *)
(* is a possible call.                                                     *)
(***************************************************************************)
EXTENDS Integers, Sequences, FiniteSets, TLC

VARIABLES
    mem,      \* the memory: address -> byte
    hist,     \* the most recent calls, oldest first: [src, dst, before]
    touched,  \* addresses written by the caller since the last call returned
    threads   \* per concurrent caller: position inside the bulk copy

vars == <<mem, hist, touched, threads>>

---------------------------------------------------------------------------
(* Bounds of the model *)

\* width of an identifier in the model (the header leaves the value to its includer)
CONTAINER_ID_LEN == 3

\* byte values are 0..MaxByte
MaxByte == 1

\* number of distinct addresses the caller writes between two calls
MaxStores == 2

Byte == 0..MaxByte

\* one memory area with room for two disjoint identifiers and a spare byte
MemSize == 2 * CONTAINER_ID_LEN + 1

\* one memory area with room for three disjoint identifiers
ChainMemSize == 3 * CONTAINER_ID_LEN

Addr(size) == 0..(size - 1)

\* the addresses an identifier may start at
Starts(size) == 0..(size - CONTAINER_ID_LEN)

Offsets == 0..(CONTAINER_ID_LEN - 1)

---------------------------------------------------------------------------
(* char x[CONTAINER_ID_LEN] at address p *)

Region(p) == {p + i : i \in Offsets}

Overlap(a, b) == Region(a) \cap Region(b) # {}

\* the identifier held at p in memory m
ReadId(m, p) == [i \in Offsets |-> m[p + i]]

\* byte-exact comparison of the identifiers at a and b
equals(m, a, b) == \A i \in Offsets : m[a + i] = m[b + i]

\* the all-zero identifier: no container, a host event
is_zero(m, p) == \A i \in Offsets : m[p + i] = 0

---------------------------------------------------------------------------
(* __builtin_memmove(dst, src, n): the n source bytes are loaded, then the *)
(* n destination bytes are stored.                                         *)

\* a copy that stores byte i before it loads byte i+1 (memcpy's forward loop)
RECURSIVE forward_loop(_, _, _, _, _)
forward_loop(m, dst, src, n, i) ==
    IF i >= n THEN m
    ELSE forward_loop([m EXCEPT ![dst + i] = m[src + i]], dst, src, n, i + 1)

memcpy_forward(m, dst, src, n) == forward_loop(m, dst, src, n, 0)

\* a copy that ends at the first zero byte and pads the rest (strncpy)
memmove_strncpy(m, dst, src, n) ==
    LET tmp == [i \in 0..(n - 1) |-> m[src + i]]
        live(i) == \A j \in 0..(i - 1) : tmp[j] # 0
    IN  [a \in DOMAIN m |->
            IF a \in dst..(dst + n - 1)
            THEN (IF live(a - dst) THEN tmp[a - dst] ELSE 0)
            ELSE m[a]]

\* a copy of one byte more than asked for
memmove_over(m, dst, src, n) ==
    LET tmp == [i \in 0..n |-> IF src + i \in DOMAIN m THEN m[src + i] ELSE 0]
    IN  [a \in DOMAIN m |-> IF a \in dst..(dst + n) THEN tmp[a - dst] ELSE m[a]]

memmove(m, dst, src, n) ==
    LET tmp == [i \in 0..(n - 1) |-> m[src + i]]
    IN  [a \in DOMAIN m |-> IF a \in dst..(dst + n - 1) THEN tmp[a - dst] ELSE m[a]]

\* the length handed to the bulk copy
copy_len_short == CONTAINER_ID_LEN - 1

copy_len == CONTAINER_ID_LEN

\* the call with its two pointers exchanged
copy_container_id_swapped(m, src, dst) == memmove(m, src, dst, copy_len)

copy_container_id(m, src, dst) == memmove(m, dst, src, copy_len)

---------------------------------------------------------------------------
(* State machine: calls of copy_container_id and byte writes by the caller *)

NoThreads == <<>>

Call(s, d, m) == [src |-> s, dst |-> d, before |-> m]

\* the last w entries of a sequence
LastN(q, w) == IF Len(q) <= w THEN q ELSE SubSeq(q, Len(q) - w + 1, Len(q))

Called == hist # <<>>

Last == hist[Len(hist)]

Init ==
    /\ mem \in [Addr(MemSize) -> Byte]
    /\ hist = <<>>
    /\ touched = {}
    /\ threads = NoThreads

\* copy_container_id(s, d) runs to completion; the last w calls are remembered
Copy(s, d, w) ==
    /\ mem' = copy_container_id(mem, s, d)
    /\ hist' = LastN(Append(hist, Call(s, d, mem)), w)
    /\ touched' = {}
    /\ UNCHANGED threads

\* the caller writes one byte after a call has returned
Store(a, v) ==
    /\ Called
    /\ a \in touched \/ Cardinality(touched) < MaxStores
    /\ mem' = [mem EXCEPT ![a] = v]
    /\ touched' = touched \cup {a}
    /\ UNCHANGED <<hist, threads>>

\* one call, made in any memory content
FirstCopy(s, d) ==
    /\ ~Called
    /\ Copy(s, d, 1)

Next == \E s, d \in Starts(MemSize) : FirstCopy(s, d)

Spec == Init /\ [][Next]_vars

NextStore ==
    \/ \E s, d \in Starts(MemSize) : Copy(s, d, 1)
    \/ \E a \in Addr(MemSize), v \in Byte : Store(a, v)

SpecStore == Init /\ [][NextStore]_vars

---------------------------------------------------------------------------
(* Two calls in a row, in a memory with room for three identifiers *)

\* calls in one run of the chained scenario
MaxCalls == 2

InitChain ==
    /\ mem \in [Addr(ChainMemSize) -> Byte]
    /\ hist = <<>>
    /\ touched = {}
    /\ threads = NoThreads

CopyChained(s, d) ==
    /\ Len(hist) < MaxCalls
    /\ Copy(s, d, MaxCalls)

NextChain == \E s, d \in Starts(ChainMemSize) : CopyChained(s, d)

SpecChain == InitChain /\ [][NextChain]_vars

---------------------------------------------------------------------------
(* Two callers inside copy_container_id at once.  Each caller loads its    *)
(* copy_len source bytes one at a time, then stores them one at a time;    *)
(* the loads and stores of the two callers interleave freely.              *)

Threads == {1, 2}

Entered == [pc |-> "load", i |-> 0, tmp |-> <<>>]

\* both callers read one source; the three regions are pairwise disjoint
InitConc ==
    /\ mem \in [Addr(ChainMemSize) -> Byte]
    /\ \E s, d1, d2 \in Starts(ChainMemSize) :
          /\ ~Overlap(s, d1) /\ ~Overlap(s, d2) /\ ~Overlap(d1, d2)
          /\ hist = <<Call(s, d1, mem), Call(s, d2, mem)>>
    /\ touched = {}
    /\ threads = [t \in Threads |-> Entered]

\* the position after byte i has been handled
Advance(th, next) ==
    IF th.i + 1 >= copy_len
    THEN [th EXCEPT !.pc = next, !.i = 0]
    ELSE [th EXCEPT !.i = th.i + 1]

\* caller t loads source byte i
Load(t) ==
    LET th == threads[t]
        b == mem[hist[t].src + th.i]
        got == [th EXCEPT !.tmp = [j \in 0..th.i |-> IF j = th.i THEN b ELSE th.tmp[j]]]
    IN  /\ th.pc = "load"
        /\ threads' = [threads EXCEPT ![t] = Advance(got, "store")]
        /\ UNCHANGED <<mem, hist, touched>>

\* caller t stores destination byte i
StoreLoaded(t) ==
    LET th == threads[t]
    IN  /\ th.pc = "store"
        /\ mem' = [mem EXCEPT ![hist[t].dst + th.i] = th.tmp[th.i]]
        /\ threads' = [threads EXCEPT ![t] = Advance(th, "done")]
        /\ UNCHANGED <<hist, touched>>

Step(t) == Load(t) \/ StoreLoaded(t)

NextConc == \E t \in Threads : Step(t)

\* a caller inside the copy is never blocked: the copy takes no lock and waits for nothing
SpecConc == InitConc /\ [][NextConc]_vars /\ \A t \in Threads : WF_vars(Step(t))

---------------------------------------------------------------------------
(* Properties of one call, checked in the state the call returns in *)

Src == Last.src

Dst == Last.dst

Before == Last.before

\* dst starts k bytes after (k > 0) or before (k < 0) src, the regions sharing bytes
PartialOverlap == Called /\ Src # Dst /\ Overlap(Src, Dst)

\* C1: after a call with non-overlapping regions every destination byte equals
\* the source byte at the same offset, so equals(dst, src) holds and no byte
\* of dst keeps an old value that differed from the source byte.
C1_CopyEqualsSource ==
    (Called /\ touched = {} /\ ~Overlap(Src, Dst)) =>
        /\ \A i \in Offsets : mem[Dst + i] = Before[Src + i]
        /\ equals(mem, Dst, Src)
        /\ \A i \in Offsets :
              mem[Dst + i] = Before[Dst + i] => Before[Dst + i] = Before[Src + i]

\* a disjoint call that had to change every byte of dst
C1_Witness ==
    /\ Called /\ touched = {} /\ ~Overlap(Src, Dst)
    /\ \A i \in Offsets : Before[Dst + i] # Before[Src + i]
    /\ equals(mem, Dst, Src)

\* C2: for dst placed k bytes before or after src, k in 1..CONTAINER_ID_LEN-1,
\* every destination byte holds the value the source byte at the same offset
\* had immediately before the call.
C2_OverlapSafe ==
    (PartialOverlap /\ touched = {}) =>
        \A i \in Offsets : mem[Dst + i] = Before[Src + i]

\* dst one byte after src, the source bytes not all alike
C2_Witness ==
    /\ PartialOverlap /\ touched = {}
    /\ Dst = Src + 1
    /\ Before[Src] # Before[Src + 1]
    /\ ReadId(mem, Dst) = ReadId(Before, Src)

\* C3: every byte outside the destination region keeps its value, and the
\* bytes left in dst are the same whatever any byte outside the source
\* region held before the call.
C3_Frame ==
    (Called /\ touched = {}) =>
        /\ \A a \in DOMAIN mem \ Region(Dst) : mem[a] = Before[a]
        /\ \A a \in DOMAIN mem \ Region(Src) : \A v \in Byte :
              ReadId(copy_container_id([Before EXCEPT ![a] = v], Src, Dst), Dst)
                  = ReadId(mem, Dst)

\* a call that changed dst, with a byte on each side of dst
C3_Witness ==
    /\ Called /\ touched = {}
    /\ Dst - 1 \in DOMAIN mem /\ Dst + CONTAINER_ID_LEN \in DOMAIN mem
    /\ ReadId(mem, Dst) # ReadId(Before, Dst)
    /\ mem[Dst - 1] = Before[Dst - 1]
    /\ mem[Dst + CONTAINER_ID_LEN] = Before[Dst + CONTAINER_ID_LEN]

\* C6 as stated: for every placement the source bytes hold the same values
\* after the call as before it.
C6_SourceUnchangedAnyPlacement ==
    (Called /\ touched = {}) =>
        \A i \in Offsets : mem[Src + i] = Before[Src + i]

\* C6 amended: the source bytes outside the destination region hold the same
\* values after the call as before it; this is every source byte when the two
\* regions are disjoint, and when they are the same region no byte changes.
C6_SourceUnchangedOutsideDst ==
    (Called /\ touched = {}) =>
        /\ \A i \in Offsets :
              (Src + i) \notin Region(Dst) => mem[Src + i] = Before[Src + i]
        /\ ~Overlap(Src, Dst) => ReadId(mem, Src) = ReadId(Before, Src)
        /\ Src = Dst => ReadId(mem, Src) = ReadId(Before, Src)

\* a partially overlapping call that changed a shared byte and kept the rest of src
C6_Witness ==
    /\ PartialOverlap /\ touched = {}
    /\ ReadId(mem, Src) # ReadId(Before, Src)
    /\ \A i \in Offsets :
          (Src + i) \notin Region(Dst) => mem[Src + i] = Before[Src + i]

\* C7: dst is all-zero after the call exactly when src was all-zero before it.
C7_ZeroPreserved ==
    (Called /\ touched = {}) => (is_zero(mem, Dst) <=> is_zero(Before, Src))

\* a host identifier copied over a container identifier
C7_Witness ==
    /\ Called /\ touched = {}
    /\ is_zero(Before, Src) /\ ~is_zero(Before, Dst)
    /\ is_zero(mem, Dst)

\* C8: a zero byte at offset j of src does not end the copy: every later
\* source byte is still copied to the same offset of dst.
C8_NoNulTermination ==
    (Called /\ touched = {}) =>
        \A j \in Offsets : Before[Src + j] = 0 =>
            \A i \in Offsets : i > j => mem[Dst + i] = Before[Src + i]

\* a source starting with a zero byte whose later non-zero byte reached dst
C8_Witness ==
    /\ Called /\ touched = {} /\ ~Overlap(Src, Dst)
    /\ Before[Src] = 0
    /\ Before[Src + 1] # 0 /\ Before[Dst + 1] = 0
    /\ mem[Dst + 1] = Before[Src + 1]

---------------------------------------------------------------------------
(* Properties of the caller's writes after a call *)

\* C4: after a call with non-overlapping regions, writes that leave dst alone
\* (writes to the source bytes among them) leave dst holding the value the
\* source had when the call was made.
C4_IndependentStorage ==
    (Called /\ ~Overlap(Src, Dst) /\ touched \cap Region(Dst) = {}) =>
        ReadId(mem, Dst) = ReadId(Before, Src)

\* the source was rewritten after the call and dst still holds the old value
C4_Witness ==
    /\ Called /\ ~Overlap(Src, Dst)
    /\ Cardinality(touched) = MaxStores /\ touched \subseteq Region(Src)
    /\ \A a \in touched : mem[a] # Before[a]
    /\ ReadId(Before, Dst) # ReadId(Before, Src)
    /\ ReadId(mem, Dst) = ReadId(Before, Src)

\* C5 as stated: after a call with overlapping regions dst equals the source
\* value, and writes to the source bytes afterwards do not change dst.
C5_OverlapIndependent ==
    (Called /\ Overlap(Src, Dst) /\ touched \subseteq Region(Src)) =>
        ReadId(mem, Dst) = ReadId(Before, Src)

\* C5 amended: after a call with overlapping regions dst equals the value the
\* source had before the call, and writes to the source bytes that lie
\* outside the destination region do not change dst.
C5_OverlapSharedBytes ==
    (Called /\ Overlap(Src, Dst) /\ touched \subseteq Region(Src) \ Region(Dst)) =>
        ReadId(mem, Dst) = ReadId(Before, Src)

\* an overlapping call followed by a write to a source byte outside dst
C5_Witness ==
    /\ PartialOverlap
    /\ touched # {} /\ touched \subseteq Region(Src) \ Region(Dst)
    /\ \A a \in touched : mem[a] # Before[a]
    /\ ReadId(Before, Dst) # ReadId(Before, Src)
    /\ ReadId(mem, Dst) = ReadId(Before, Src)

---------------------------------------------------------------------------
(* Properties of two calls in a row *)

Prev == hist[Len(hist) - 1]

TwoCalls == Len(hist) >= 2

\* C9: (i) a call with src and dst the same region leaves the memory as it
\* was; (ii) a second call with the same non-overlapping regions leaves the
\* whole memory as the first call left it; (iii) for pairwise non-overlapping
\* a, b, c, a call from a to b followed by a call from b to c leaves c equal
\* to what a held before the first call.
C9_SelfCopyIdempotentChain ==
    /\ (Called /\ Src = Dst) => mem = Before
    /\ (TwoCalls /\ Prev.src = Src /\ Prev.dst = Dst /\ ~Overlap(Src, Dst)) =>
          mem = Before
    /\ (TwoCalls /\ Prev.dst = Src
          /\ ~Overlap(Prev.src, Prev.dst) /\ ~Overlap(Src, Dst)
          /\ ~Overlap(Prev.src, Dst)) =>
          ReadId(mem, Dst) = ReadId(Prev.before, Prev.src)

\* a to b then b to c, the three identifiers pairwise different at the start
C9_Witness ==
    /\ TwoCalls /\ Prev.dst = Src
    /\ ~Overlap(Prev.src, Prev.dst) /\ ~Overlap(Src, Dst) /\ ~Overlap(Prev.src, Dst)
    /\ ReadId(Prev.before, Prev.src) # ReadId(Prev.before, Prev.dst)
    /\ ReadId(Prev.before, Prev.src) # ReadId(Prev.before, Dst)
    /\ ReadId(Prev.before, Prev.dst) # ReadId(Prev.before, Dst)
    /\ ReadId(mem, Dst) = ReadId(Prev.before, Prev.src)

---------------------------------------------------------------------------
(* Properties of two concurrent callers *)

AllDone == threads # NoThreads /\ \A t \in Threads : threads[t].pc = "done"

BothEqualSource ==
    \A t \in Threads :
        /\ ReadId(mem, hist[t].dst) = ReadId(hist[t].before, hist[t].src)
        /\ ReadId(mem, hist[t].src) = ReadId(hist[t].before, hist[t].src)

\* C10: two callers copying one source into two destinations that overlap
\* neither each other nor the source both finish under every interleaving of
\* their loads and stores, and then both destinations equal the source, which
\* holds what it held before.
C10_ConcurrentCopies == <>AllDone /\ [](AllDone => BothEqualSource)

\* both callers done, neither destination equal to the source at the start
C10_Witness ==
    /\ AllDone
    /\ \A t \in Threads :
          /\ \A i \in Offsets :
                hist[t].before[hist[t].dst + i] # hist[t].before[hist[t].src + i]
          /\ equals(mem, hist[t].dst, hist[t].src)

====
